---- MODULE Spec2Model ----
(***************************************************************************)
(* Model of the BGE-M3 embedding server (src/model_server/app.py).         *)
(*                                                                         *)
(* State: the module globals `model` and `device`, the value load_model()  *)
(* returned to the lifespan hook, numpy's global random generator (read    *)
(* and advanced by the mock embedder), the request being handled and the   *)
(* response it produced.  The handlers are `async def` bodies without any  *)
(* await, so each one runs to completion on the event loop: one action per *)
(* handler.                                                                *)
(*                                                                         *)
(* Vectors are exact: a vector is [num, den2] and stands for               *)
(* num / sqrt(den2).  den2 = 0 is the result of dividing by a zero norm    *)
(* (numpy yields nan there and does not raise).                            *)
(***************************************************************************)
EXTENDS Integers, Sequences, FiniteSets, TLC

VARIABLES model, device, loaded, phase, rng, req, resp, calls

vars == <<model, device, loaded, phase, rng, req, resp, calls>>

----------------------------------------------------------------------------
(* Bounds of the model *)

\* requests carry 0..MaxTexts texts
MaxTexts == 65
\* components per vector (the server's vectors have 1024)
Dim == 2
\* period of the modelled random generator
RngPeriod == 2
\* the encoder may raise on any subset of its first MaxFailIdx invocations
MaxFailIdx == 2
\* small requested batch sizes are -1..MaxSmallBatch
MaxSmallBatch == 2
\* number of distinct raw vectors the stub encoder produces
NumRaw == 4

(* Program constants *)

MAX_BATCH_SIZE == 64
DEFAULT_BATCH_SIZE == 64

----------------------------------------------------------------------------
(* Python values *)

\* Optional[int]: None is the empty tuple, an int x is <<x>>
None == <<>>
Some(x) == <<x>>

Min(a, b) == IF a <= b THEN a ELSE b

\* `x or d` on an Optional[int]: None and 0 are falsy
OrDefault(x, d) == IF x = None \/ x[1] = 0 THEN d ELSE x[1]

\* texts[i:batch_size] in place of texts[i:i + batch_size]
SliceFromZero(s, lo, hi) == SubSeq(s, lo + 1, Min(hi - lo, Len(s)))

\* texts[lo:hi] with 0 <= lo, clipped at the end of the list
Slice(s, lo, hi) == SubSeq(s, lo + 1, Min(hi, Len(s)))

\* list(range(start, stop, step)) for step # 0
Range(start, stop, step) ==
    LET n == IF step > 0
             THEN (IF stop > start THEN (stop - start + step - 1) \div step ELSE 0)
             ELSE (IF start > stop THEN (start - stop - step - 1) \div (-step) ELSE 0)
    IN  [k \in 1..n |-> start + (k - 1) * step]

----------------------------------------------------------------------------
(* Vectors *)

RECURSIVE SumSq(_)
SumSq(s) == IF s = <<>> THEN 0 ELSE s[1] * s[1] + SumSq(Tail(s))

Vec(num) == [num |-> num, den2 |-> 1]

\* np.linalg.norm(v) > 0
NormPositive(v) == v.den2 > 0 /\ SumSq(v.num) > 0

\* v / np.linalg.norm(v)
DivByNorm(v) == [num |-> v.num, den2 |-> IF v.den2 = 0 THEN 0 ELSE SumSq(v.num)]

IsUnit(v) == v.den2 > 0 /\ SumSq(v.num) = v.den2
IsZero(v) == v.den2 > 0 /\ \A j \in 1..Len(v.num) : v.num[j] = 0

\* The encoder is a black box: a fixed function of the text.  Raw vector 0
\* is the zero vector, raw vector 1 is already a unit vector, the others
\* are neither.
RawSample(k) ==
    [j \in 1..Dim |->
        IF k = 0 THEN 0
        ELSE IF k = 1 THEN (IF j = 1 THEN 1 ELSE 0)
        ELSE IF k % 2 = 0 THEN k + j ELSE -(k + j)]

\* model.encode(texts, ...)["dense_vecs"]: one vector per text, in order
encode(texts) ==
    [j \in 1..Len(texts) |->
        [text |-> texts[j], src |-> "model", vec |-> Vec(RawSample(texts[j] % NumRaw))]]

\* np.random.randn(1024) in generator state r: never the zero vector
randn(r) == Vec([j \in 1..Dim |-> r + j])

----------------------------------------------------------------------------
(* Embedding functions *)

embed_texts_mock(texts, batch_size, r) ==
    [embeddings |-> [j \in 1..Len(texts) |->
                        [text |-> texts[j], src |-> "mock",
                         vec |-> DivByNorm(randn((r + j - 1) % RngPeriod))]],
     rng        |-> (r + Len(texts)) % RngPeriod]

\* the normalisation loop left out
normalize_skipped(embedding) == embedding

\* the normalisation loop of embed_texts_actual
normalize(embedding) ==
    IF NormPositive(embedding.vec)
    THEN [embedding EXCEPT !.vec = DivByNorm(embedding.vec)]
    ELSE embedding

\* embed_texts_actual without its except clause: the exception of
\* model.encode leaves the function
embed_texts_actual_reraise(texts, batch_size, raises, r) ==
    IF model = "None"
    THEN embed_texts_mock(texts, batch_size, r)
            @@ [invoked |-> FALSE, raised |-> FALSE, escaped |-> FALSE]
    ELSE IF raises
    THEN [embeddings |-> <<>>, rng |-> r,
          invoked |-> TRUE, raised |-> TRUE, escaped |-> TRUE]
    ELSE [embeddings |-> [j \in 1..Len(texts) |-> normalize(encode(texts)[j])],
          rng |-> r, invoked |-> TRUE, raised |-> FALSE, escaped |-> FALSE]

\* `raises`: whether this invocation of model.encode raises.  The try/except
\* around the whole body turns every exception into the mock path, so no
\* exception escapes (escaped is what a caller would see propagate).
embed_texts_actual(texts, batch_size, raises, r) ==
    IF model = "None"
    THEN embed_texts_mock(texts, batch_size, r)
            @@ [invoked |-> FALSE, raised |-> FALSE, escaped |-> FALSE]
    ELSE IF raises
    THEN embed_texts_mock(texts, batch_size, r)
            @@ [invoked |-> TRUE, raised |-> TRUE, escaped |-> FALSE]
    ELSE [embeddings |-> [j \in 1..Len(texts) |-> normalize(encode(texts)[j])],
          rng |-> r, invoked |-> TRUE, raised |-> FALSE, escaped |-> FALSE]

\* the clamp to 64 left out
effective_batch_size_unclamped(request) ==
    OrDefault(request.batch_size, DEFAULT_BATCH_SIZE)

\* batch_size = min(request.batch_size or 64, 64)
effective_batch_size(request) ==
    Min(OrDefault(request.batch_size, DEFAULT_BATCH_SIZE), MAX_BATCH_SIZE)

\* the loop with a fallback that sticks: after the first failure of
\* model.encode every later chunk goes straight to the mock embedder
RECURSIVE EmbedLoopSticky(_, _, _, _, _, _)
EmbedLoopSticky(texts, batch_size, starts, k, fails, acc) ==
    IF k > Len(starts) \/ acc.escaped THEN acc
    ELSE LET i                == starts[k]
             batch_texts      == Slice(texts, i, i + batch_size)
             failed           == \E c \in 1..Len(acc.calls) : acc.calls[c].raised
             batch_embeddings ==
                 IF failed
                 THEN embed_texts_mock(batch_texts, batch_size, acc.rng)
                         @@ [invoked |-> FALSE, raised |-> FALSE, escaped |-> FALSE]
                 ELSE embed_texts_actual(batch_texts, batch_size, k \in fails, acc.rng)
         IN  EmbedLoopSticky(texts, batch_size, starts, k + 1, fails,
                [all_embeddings |-> acc.all_embeddings \o batch_embeddings.embeddings,
                 rng     |-> batch_embeddings.rng,
                 calls   |-> Append(acc.calls,
                                [texts      |-> batch_texts,
                                 batch_size |-> batch_size,
                                 first      |-> Len(acc.all_embeddings),
                                 invoked    |-> batch_embeddings.invoked,
                                 raised     |-> batch_embeddings.raised]),
                 escaped |-> batch_embeddings.escaped])

\* The for loop of embed_texts from its k-th iteration on.  acc holds
\* all_embeddings, the generator state, the log of embed_texts_actual calls
\* and whether an exception left the loop.  fails is the set of loop
\* iterations in which model.encode raises.
RECURSIVE EmbedLoop(_, _, _, _, _, _)
EmbedLoop(texts, batch_size, starts, k, fails, acc) ==
    IF k > Len(starts) \/ acc.escaped THEN acc
    ELSE LET i                == starts[k]
             batch_texts      == Slice(texts, i, i + batch_size)
             batch_embeddings == embed_texts_actual(batch_texts, batch_size,
                                                    k \in fails, acc.rng)
         IN  EmbedLoop(texts, batch_size, starts, k + 1, fails,
                [all_embeddings |-> IF batch_embeddings.escaped
                                    THEN acc.all_embeddings
                                    ELSE acc.all_embeddings \o batch_embeddings.embeddings,
                 rng     |-> batch_embeddings.rng,
                 calls   |-> Append(acc.calls,
                                [texts      |-> batch_texts,
                                 batch_size |-> batch_size,
                                 first      |-> Len(acc.all_embeddings),
                                 invoked    |-> batch_embeddings.invoked,
                                 raised     |-> batch_embeddings.raised]),
                 escaped |-> batch_embeddings.escaped])

\* What the try block of embed_texts does: it raises an exception or
\* returns an EmbedResponse.
embed_texts_try(request, fails, r) ==
    IF request.texts = <<>>
    THEN [raises |-> TRUE, exc |-> <<"HTTPException", 400, "No texts provided">>,
          rng |-> r, calls |-> <<>>]
    ELSE IF Len(request.texts) > MAX_BATCH_SIZE
    THEN [raises |-> TRUE,
          exc |-> <<"HTTPException", 400, "Too many texts. Maximum allowed: 64">>,
          rng |-> r, calls |-> <<>>]
    ELSE LET batch_size == effective_batch_size(request)
         IN  IF batch_size = 0
             THEN [raises |-> TRUE,
                   exc |-> <<"ValueError", 0, "range() arg 3 must not be zero">>,
                   rng |-> r, calls |-> <<>>]
             ELSE LET out == EmbedLoop(request.texts, batch_size,
                                       Range(0, Len(request.texts), batch_size), 1, fails,
                                       [all_embeddings |-> <<>>, rng |-> r,
                                        calls |-> <<>>, escaped |-> FALSE])
                  IN  IF out.escaped
                      THEN [raises |-> TRUE, exc |-> <<"Exception", 0, "encode">>,
                            rng |-> out.rng, calls |-> out.calls]
                      ELSE [raises |-> FALSE,
                            body |-> [embeddings |-> out.all_embeddings,
                                      model_info |->
                                         [model_name    |-> "BAAI/bge-m3",
                                          device        |-> device,
                                          embedding_dim |-> 1024,
                                          text_count    |-> Len(request.texts)]],
                            rng |-> out.rng, calls |-> out.calls]

----------------------------------------------------------------------------
(* Requests and responses *)

NoReq  == [kind |-> "none"]
NoResp == [kind |-> "none"]

\* the texts of a request of n texts: pairwise distinct
Texts(n) == [i \in 1..n |-> i]

BatchSizes ==
    {None} \cup {Some(b) : b \in -1..MaxSmallBatch}
           \cup {Some(b) : b \in (MAX_BATCH_SIZE - 1)..(MAX_BATCH_SIZE + 1)}

EmbedRequests ==
    {[kind |-> "embed", texts |-> Texts(n), batch_size |-> b] :
        n \in 0..MaxTexts, b \in BatchSizes}

\* The loop iterations in which model.encode raises.  Without a model
\* encode is never invoked and nothing can raise.
FailPatterns == IF model = "None" THEN {{}} ELSE SUBSET (1..MaxFailIdx)

----------------------------------------------------------------------------
(* Startup *)

\* detect_device(): cuda before mps before cpu
detect_device(cuda, mps) == IF cuda THEN "cuda" ELSE IF mps THEN "mps" ELSE "cpu"

FailPoints == {"none", "detect_device", "torch_device", "construct", "move"}

\* load_model() on a host with the given accelerators, where the step failAt
\* (if any) raises.  Assignments made before the exception stay in the
\* globals; the except clause only logs and returns False.
load_model(cuda, mps, failAt) ==
    LET d == detect_device(cuda, mps)
    IN  /\ failAt = "move" => d \in {"cuda", "mps"}
        /\ device' = IF failAt = "detect_device" THEN device ELSE d
        /\ model'  = IF failAt \in {"detect_device", "torch_device", "construct"}
                     THEN model
                     ELSE "BGEM3FlagModel"
        /\ loaded' = IF failAt = "none" THEN "True" ELSE "False"

\* the startup half of lifespan(): runs once, before any request is served
lifespan_startup ==
    /\ phase = "starting"
    /\ \E cuda \in BOOLEAN, mps \in BOOLEAN, failAt \in FailPoints :
          load_model(cuda, mps, failAt)
    /\ phase' = "serving"
    /\ UNCHANGED <<rng, req, resp, calls>>

\* the shutdown half of lifespan(): logs only
lifespan_shutdown ==
    /\ phase = "serving"
    /\ resp = NoResp
    /\ phase' = "stopped"
    /\ UNCHANGED <<model, device, loaded, rng, req, resp, calls>>

----------------------------------------------------------------------------
(* Handlers *)

\* `device or "unknown"`
DeviceOrUnknown == IF device = "None" THEN "unknown" ELSE device

\* health_check reporting "healthy" whatever the model handle is
health_check_always_healthy ==
    /\ phase = "serving"
    /\ resp = NoResp
    /\ req' = [kind |-> "health"]
    /\ resp' = [kind   |-> "health",
                status |-> 200,
                body   |-> [status       |-> "healthy",
                            device       |-> DeviceOrUnknown,
                            model_loaded |-> model # "None",
                            model_info   |-> [model_name    |-> "BAAI/bge-m3",
                                              embedding_dim |-> 1024,
                                              device        |-> DeviceOrUnknown,
                                              model_type    |-> "BGE-M3"]]]
    /\ UNCHANGED <<model, device, loaded, phase, rng, calls>>

health_check ==
    /\ phase = "serving"
    /\ resp = NoResp
    /\ req' = [kind |-> "health"]
    /\ resp' = [kind   |-> "health",
                status |-> 200,
                body   |-> [status       |-> IF model = "None" THEN "healthy_mock"
                                             ELSE "healthy",
                            device       |-> DeviceOrUnknown,
                            model_loaded |-> model # "None",
                            model_info   |-> [model_name    |-> "BAAI/bge-m3",
                                              embedding_dim |-> 1024,
                                              device        |-> DeviceOrUnknown,
                                              model_type    |-> "BGE-M3"]]]
    /\ UNCHANGED <<model, device, loaded, phase, rng, calls>>

\* POST /embed.  `except Exception` encloses the whole try block, the two
\* validation raises included, and answers every exception with a 500.
embed_texts(request, fails) ==
    /\ phase = "serving"
    /\ resp = NoResp
    /\ req' = request
    /\ \E out \in {embed_texts_try(request, fails, rng)} :
           /\ resp' = IF out.raises
                      THEN [kind   |-> "embed",
                            status |-> 500,
                            body   |-> [detail |-> <<"Embedding generation failed">>
                                                       \o out.exc]]
                      ELSE [kind |-> "embed", status |-> 200, body |-> out.body]
           /\ rng' = out.rng
           /\ calls' = out.calls
    /\ UNCHANGED <<model, device, loaded, phase>>

\* root storing the defaulted device tag back into the global
root_writes_device ==
    /\ phase = "serving"
    /\ resp = NoResp
    /\ req' = [kind |-> "root"]
    /\ resp' = [kind   |-> "root",
                status |-> 200,
                body   |-> [service   |-> "BGE-M3 Embedding Server",
                            version   |-> "1.0.0",
                            endpoints |-> <<"/health", "/embed">>,
                            docs      |-> "/docs"]]
    /\ device' = DeviceOrUnknown
    /\ UNCHANGED <<model, loaded, phase, rng, calls>>

root ==
    /\ phase = "serving"
    /\ resp = NoResp
    /\ req' = [kind |-> "root"]
    /\ resp' = [kind   |-> "root",
                status |-> 200,
                body   |-> [service   |-> "BGE-M3 Embedding Server",
                            version   |-> "1.0.0",
                            endpoints |-> <<"/health", "/embed">>,
                            docs      |-> "/docs"]]
    /\ UNCHANGED <<model, device, loaded, phase, rng, calls>>

\* the response is sent and the server is ready for the next request
send_response ==
    /\ resp # NoResp
    /\ req' = NoReq
    /\ resp' = NoResp
    /\ calls' = <<>>
    /\ UNCHANGED <<model, device, loaded, phase, rng>>

----------------------------------------------------------------------------
(* Specification *)

Init ==
    /\ model = "None"
    /\ device = "None"
    /\ loaded = "unset"
    /\ phase = "starting"
    /\ rng \in 0..(RngPeriod - 1)
    /\ req = NoReq
    /\ resp = NoResp
    /\ calls = <<>>

Next ==
    \/ lifespan_startup
    \/ lifespan_shutdown
    \/ health_check
    \/ \E request \in EmbedRequests, fails \in FailPatterns :
          embed_texts(request, fails)
    \/ root
    \/ send_response

Spec == Init /\ [][Next]_vars

----------------------------------------------------------------------------
(* Properties *)

EmbeddingsOf(r) == r.body.embeddings

\* an /embed response to a request that passes the length validation
AcceptedLength == resp.kind = "embed" /\ Len(req.texts) \in 1..MAX_BATCH_SIZE

EmbedOk == resp.kind = "embed" /\ resp.status = 200

\* the positions in the response of the vectors of the k-th call
ChunkItems(k) == (calls[k].first + 1)..(calls[k].first + Len(calls[k].texts))

\* C1: an /embed request with no texts or with more than 64 texts is
\* answered with status 400, never 500.
C1_InvalidInputIs400 ==
    (resp.kind = "embed" /\ Len(req.texts) \notin 1..MAX_BATCH_SIZE)
        => resp.status = 400

\* C2: for 1..64 texts and a positive (or omitted) batch_size the response
\* holds exactly one embedding per text, and embedding i is the vector the
\* encoder produced for texts[i].
C2_OneVectorPerTextInOrder ==
    (AcceptedLength /\ (req.batch_size = None \/ req.batch_size[1] >= 1))
        => /\ resp.status = 200
           /\ Len(EmbeddingsOf(resp)) = Len(req.texts)
           /\ \A i \in 1..Len(req.texts) :
                 /\ EmbeddingsOf(resp)[i].text = req.texts[i]
                 /\ EmbeddingsOf(resp)[i].src = "model"
                       => EmbeddingsOf(resp)[i].vec.num = RawSample(req.texts[i] % NumRaw)

C2_Witness ==
    /\ EmbedOk
    /\ model # "None"
    /\ Len(req.texts) = MAX_BATCH_SIZE
    /\ req.batch_size = Some(MAX_BATCH_SIZE - 1)
    /\ Len(calls) = 2

\* C3: a request of 1..64 texts is answered with status 200 whether no
\* model is loaded or model.encode raises, and every chunk whose encode
\* call raised (or that had no model) is answered by the mock embedder.
C3_ModelFailureAbsorbed ==
    AcceptedLength
        => /\ resp.status = 200
           /\ \A k \in 1..Len(calls) :
                 (~calls[k].invoked \/ calls[k].raised)
                    => \A i \in ChunkItems(k) : EmbeddingsOf(resp)[i].src = "mock"

C3_Witness ==
    /\ EmbedOk
    /\ Len(req.texts) = MAX_BATCH_SIZE
    /\ \E k \in 1..Len(calls) : calls[k].invoked /\ calls[k].raised

\* C4: health() answers 200 with status "healthy" and model_loaded true
\* exactly when the model handle is non-null, and status "healthy_mock"
\* and model_loaded false exactly when it is null.
C4_HealthReflectsModel ==
    resp.kind = "health"
        => /\ resp.status = 200
           /\ resp.body.status \in {"healthy", "healthy_mock"}
           /\ (resp.body.status = "healthy" /\ resp.body.model_loaded) <=> model # "None"
           /\ (resp.body.status = "healthy_mock" /\ ~resp.body.model_loaded)
                 <=> model = "None"

C4_Witness == resp.kind = "health" /\ model = "None" /\ device # "None"

\* C5: every vector of a successful /embed response has unit L2 norm or
\* is the zero vector.
C5_UnitOrZero ==
    EmbedOk
        => \A i \in 1..Len(EmbeddingsOf(resp)) :
              IsUnit(EmbeddingsOf(resp)[i].vec) \/ IsZero(EmbeddingsOf(resp)[i].vec)

C5_Witness ==
    /\ EmbedOk
    /\ \E i \in 1..Len(EmbeddingsOf(resp)) :
          EmbeddingsOf(resp)[i].src = "model" /\ IsZero(EmbeddingsOf(resp)[i].vec)
    /\ \E i \in 1..Len(EmbeddingsOf(resp)) :
          /\ EmbeddingsOf(resp)[i].src = "model"
          /\ IsUnit(EmbeddingsOf(resp)[i].vec)
          /\ EmbeddingsOf(resp)[i].vec.den2 > 1
    /\ \E i \in 1..Len(EmbeddingsOf(resp)) : EmbeddingsOf(resp)[i].src = "mock"

\* C6: with a model loaded every chunk is sent to the model, and exactly
\* the chunks whose encode call raised are answered by the mock embedder.
C6_FallbackPerChunk ==
    (EmbedOk /\ model # "None")
        => \A k \in 1..Len(calls) :
              /\ calls[k].invoked
              /\ \A i \in ChunkItems(k) :
                    EmbeddingsOf(resp)[i].src =
                        IF calls[k].raised THEN "mock" ELSE "model"

C6_Witness ==
    /\ EmbedOk
    /\ model # "None"
    /\ Len(calls) >= 3
    /\ ~calls[1].raised /\ calls[2].raised /\ ~calls[3].raised
    /\ EmbeddingsOf(resp)[calls[3].first + 1].src = "model"

\* C7: for a requested batch_size r >= 1 the calls are made with
\* b = min(r, 64) on the slices texts[0:b], texts[b:2b], ..., in order:
\* ceil(len(texts)/b) calls, each of 1..b texts.
C7_ContiguousChunks ==
    (AcceptedLength /\ req.batch_size # None /\ req.batch_size[1] >= 1)
        => LET b == Min(req.batch_size[1], MAX_BATCH_SIZE)
               n == Len(req.texts)
           IN  /\ Len(calls) = (n + b - 1) \div b
               /\ \A k \in 1..Len(calls) :
                     /\ calls[k].batch_size = b
                     /\ calls[k].texts = SubSeq(req.texts, (k - 1) * b + 1, Min(k * b, n))
                     /\ Len(calls[k].texts) \in 1..b
                     /\ Len(calls[k].texts) <= MAX_BATCH_SIZE

C7_Witness ==
    /\ EmbedOk
    /\ req.batch_size = Some(MAX_BATCH_SIZE + 1)
    /\ Len(req.texts) = MAX_BATCH_SIZE
    /\ Len(calls) = 1

\* C8: the startup hook runs once and before any request is handled;
\* afterwards no step changes the model handle or the device tag.
C8_WrittenOnlyAtStartup ==
    [][/\ phase = "starting" => (req = NoReq /\ resp = NoResp)
       /\ phase # "starting" => /\ model' = model
                                /\ device' = device
                                /\ phase' # "starting"]_vars

C8_Witness ==
    /\ phase = "serving"
    /\ EmbedOk
    /\ \E k \in 1..Len(calls) : calls[k].raised

\* C9: whenever load_model() returned False the model handle is null (and
\* health() reports "healthy_mock" with model_loaded false).
C9_FailedLoadLeavesMock ==
    loaded = "False"
        => /\ model = "None"
           /\ resp.kind = "health"
                 => (resp.body.status = "healthy_mock" /\ ~resp.body.model_loaded)

\* C10: every 200 response of /embed has len(embeddings) = text_count =
\* len(texts), for every batch_size the schema accepts.
C10_CountMatchesForAnyBatchSize ==
    EmbedOk
        => /\ Len(EmbeddingsOf(resp)) = resp.body.model_info.text_count
           /\ resp.body.model_info.text_count = Len(req.texts)

====
